---- MODULE Spec2Model ----
(***************************************************************************)
(* Paperback's document navigation subsystem: the two table-of-contents    *)
(* hierarchy builders (build_toc_from_headings, populate_toc_items), the   *)
(* cleanup pass over the built forest (cleanup_toc) and the text search    *)
(* (find_text, find_text_literal, find_text_regex).                        *)
(*                                                                         *)
(* A wxString / std::string is a sequence of one-character strings.  A     *)
(* forest of toc_item is an arena: nodes[k] is the k-th toc_item ever      *)
(* appended, a children vector is a sequence of arena indices.  A pointer  *)
(* to a children vector is the index of the owning item, 0 for the output  *)
(* forest itself and nullptr for the null pointer.                         *)
(***************************************************************************)
EXTENDS Integers, Sequences, FiniteSets, TLC

VARIABLES
    pc,               \* position of the running function
    heading_markers,  \* build_toc_from_headings: buffer.get_heading_markers()
    ffi_toc_items,    \* populate_toc_items: the FfiTocItem vector
    idx,              \* number of events the range-for has consumed
    nodes,            \* arena of toc_item
    roots,            \* the output forest (result / toc_items)
    stacks,           \* level_stacks / depth_stacks
    orig,             \* cleanup_toc: the forest as it was handed in
    haystack,         \* find_text arguments
    needle,
    start,
    options,
    pos,              \* find_text_literal: the loop's pos
    cur,              \* find_text_regex: the backward loop's cur (offset from base)
    last_match,       \* find_text_regex: the backward loop's last_match
    ret               \* find_text: the returned value

vars == <<pc, heading_markers, ffi_toc_items, idx, nodes, roots, stacks, orig,
          haystack, needle, start, options, pos, cur, last_match, ret>>

tocVars == <<heading_markers, ffi_toc_items, idx, nodes, roots, stacks, orig>>

findVars == <<haystack, needle, start, options, pos, cur, last_match, ret>>

(***************************************************************************)
(* Bounds of the model.                                                    *)
(***************************************************************************)
MaxEvents == 3

MaxNodes == 4

MaxHaystack == 4

MaxNeedle == 2

MaxText == 3

MaxPattern == 2

(***************************************************************************)
(* Program constants.                                                      *)
(***************************************************************************)
MAX_HEADING_LEVELS == 6

MAX_DEPTH == 32

nullptr == 0 - 1

wxNOT_FOUND == 0 - 1

\* std::string::npos, the all-ones size_t.  A size_t is kept as the long of
\* the same bit pattern, so static_cast between long and size_t changes
\* nothing and the unsigned comparisons are spelled out.
npos == 0 - 1

EmptyString == << >>

(***************************************************************************)
(* Generic helpers.                                                        *)
(***************************************************************************)
MaxOf(S) == CHOOSE x \in S : \A y \in S : y <= x

MinOf(S) == CHOOSE x \in S : \A y \in S : x <= y

\* The elements i of 1..n with P[i], in increasing order (P a function to BOOLEAN).
RECURSIVE SelectIdx(_, _)
SelectIdx(keep, n) ==
    IF n = 0 THEN << >>
    ELSE IF n \in keep THEN Append(SelectIdx(keep, n - 1), n)
    ELSE SelectIdx(keep, n - 1)

(***************************************************************************)
(* The forest.                                                             *)
(***************************************************************************)
\* std::make_unique<toc_item>() followed by the assignments of name, ref, offset.
NewItem(name, ref, offset) ==
    [name |-> name, ref |-> ref, offset |-> offset, children |-> << >>]

\* parent_list->push_back(std::move(item)): the item gets the next arena index.
PushBack(ns, rs, parent_list, item) ==
    LET id == Len(ns) + 1 IN
    IF parent_list = 0
    THEN [nodes |-> Append(ns, item), roots |-> Append(rs, id)]
    ELSE [nodes |-> Append([ns EXCEPT ![parent_list].children = Append(@, id)], item),
          roots |-> rs]

(***************************************************************************)
(* build_toc_from_headings.                                                *)
(***************************************************************************)
\* for (int i = from; i >= 0; --i) if (stack[i] != nullptr) { parent_list = stack[i]; break; }
RECURSIVE ScanDown(_, _)
ScanDown(stk, i) ==
    IF i < 0 THEN nullptr
    ELSE IF stk[i] # nullptr THEN stk[i]
    ELSE ScanDown(stk, i - 1)

\* if (parent_list == nullptr) parent_list = &result;
OrResult(p) == IF p = nullptr THEN 0 ELSE p

HeadingInRange(level) == ~(level < 1 \/ level > MAX_HEADING_LEVELS)

HeadingParentList(stk, level) == OrResult(ScanDown(stk, level - 1))

\* HeadingOpen without the clearing loop: the deeper slots stay open.
HeadingOpen_KeepDeeper(stk, level, id) ==
    [i \in DOMAIN stk |-> IF i = level THEN id ELSE stk[i]]

\* level_stacks[level] = &parent_list->back()->children; then the clearing loop.
HeadingOpen(stk, level, id) ==
    [i \in DOMAIN stk |->
        IF i = level THEN id
        ELSE IF i >= level + 1 /\ i < MAX_HEADING_LEVELS + 1 THEN nullptr
        ELSE stk[i]]

\* level_stacks(MAX_HEADING_LEVELS + 1, nullptr); level_stacks[0] = &result;
HeadingStacksInit == [i \in 0..MAX_HEADING_LEVELS |-> IF i = 0 THEN 0 ELSE nullptr]

\* One pass of the loop body over a marker; st is [nodes, roots, stacks].
HeadingStep(st, marker) ==
    LET item == NewItem(marker.text, EmptyString, marker.pos)
        level == marker.level
    IN  IF ~HeadingInRange(level)
        THEN st
        ELSE LET parent_list == HeadingParentList(st.stacks, level)
                 pushed == PushBack(st.nodes, st.roots, parent_list, item)
             IN  [nodes |-> pushed.nodes,
                  roots |-> pushed.roots,
                  stacks |-> HeadingOpen(st.stacks, level, Len(pushed.nodes))]

HeadingsEntry ==
    /\ pc = "build_toc_from_headings"
    /\ IF heading_markers = << >>
       THEN /\ pc' = "done"
            /\ stacks' = stacks
       ELSE /\ pc' = "headings_loop"
            /\ stacks' = HeadingStacksInit
    /\ UNCHANGED <<heading_markers, ffi_toc_items, idx, nodes, roots, orig>>
    /\ UNCHANGED findVars

HeadingsIter ==
    /\ pc = "headings_loop"
    /\ idx < Len(heading_markers)
    /\ LET st == HeadingStep([nodes |-> nodes, roots |-> roots, stacks |-> stacks],
                             heading_markers[idx + 1])
       IN  /\ nodes' = st.nodes
           /\ roots' = st.roots
           /\ stacks' = st.stacks
    /\ idx' = idx + 1
    /\ UNCHANGED <<pc, heading_markers, ffi_toc_items, orig>>
    /\ UNCHANGED findVars

HeadingsReturn ==
    /\ pc = "headings_loop"
    /\ idx = Len(heading_markers)
    /\ pc' = "done"
    /\ UNCHANGED tocVars
    /\ UNCHANGED findVars

(***************************************************************************)
(* populate_toc_items.                                                     *)
(***************************************************************************)
FlatInRange(depth) == ~(depth < 0 \/ depth > MAX_DEPTH)

\* The indices at which the pass over an accepted entry of the given depth
\* may touch depth_stacks: the scan reads depth down to 0, the store writes
\* depth + 1, the clearing loop writes depth + 2 .. MAX_DEPTH.
AccessedIndices(depth) ==
    (0..depth) \cup {depth + 1} \cup ((depth + 2)..MAX_DEPTH)

FlatParentList(stk, depth) == OrResult(ScanDown(stk, depth))

\* depth_stacks(MAX_DEPTH + 1, nullptr); depth_stacks[0] = &toc_items;
FlatStacksInit == [i \in 0..MAX_DEPTH |-> IF i = 0 THEN 0 ELSE nullptr]

\* The vector has MAX_DEPTH + 1 elements, indices 0 .. MAX_DEPTH.
InVector(stk, i) == i \in DOMAIN stk

\* depth_stacks[depth + 1] = &parent_list->back()->children, for an index
\* inside the vector (a store past its end leaves every element as it was);
\* then for (int i = depth + 2; i <= MAX_DEPTH; ++i) depth_stacks[i] = nullptr.
FlatOpen(stk, depth, id) ==
    [i \in DOMAIN stk |->
        IF i = depth + 1 THEN id
        ELSE IF i >= depth + 2 /\ i <= MAX_DEPTH THEN nullptr
        ELSE stk[i]]

\* One pass of the loop body over an entry; st is [nodes, roots, stacks].
FlatStep(st, rust_toc) ==
    LET item == NewItem(rust_toc.name, rust_toc.reference, rust_toc.offset)
        depth == rust_toc.depth
    IN  IF ~FlatInRange(depth)
        THEN st
        ELSE LET parent_list == FlatParentList(st.stacks, depth)
                 pushed == PushBack(st.nodes, st.roots, parent_list, item)
             IN  [nodes |-> pushed.nodes,
                  roots |-> pushed.roots,
                  stacks |-> FlatOpen(st.stacks, depth, Len(pushed.nodes))]

\* Whether the pass over this entry stores past the end of depth_stacks.
StoresPastEnd(stk, rust_toc) ==
    FlatInRange(rust_toc.depth) /\ ~InVector(stk, rust_toc.depth + 1)

FlatEntry ==
    /\ pc = "populate_toc_items"
    /\ IF ffi_toc_items = << >>
       THEN /\ pc' = "done"
            /\ stacks' = stacks
       ELSE /\ pc' = "flat_loop"
            /\ stacks' = FlatStacksInit
    /\ UNCHANGED <<heading_markers, ffi_toc_items, idx, nodes, roots, orig>>
    /\ UNCHANGED findVars

\* A pass whose accesses all stay inside depth_stacks.
FlatIter ==
    /\ pc = "flat_loop"
    /\ idx < Len(ffi_toc_items)
    /\ ~StoresPastEnd(stacks, ffi_toc_items[idx + 1])
    /\ LET st == FlatStep([nodes |-> nodes, roots |-> roots, stacks |-> stacks],
                          ffi_toc_items[idx + 1])
       IN  /\ nodes' = st.nodes
           /\ roots' = st.roots
           /\ stacks' = st.stacks
    /\ idx' = idx + 1
    /\ UNCHANGED <<pc, heading_markers, ffi_toc_items, orig>>
    /\ UNCHANGED findVars

\* A pass over an entry of depth MAX_DEPTH: after the push_back, the store to
\* depth_stacks[MAX_DEPTH + 1] is one element past the vector's end, which is
\* undefined.  The slot is never read back (the scan starts at depth <=
\* MAX_DEPTH), so the build either carries on with its vector untouched or the
\* process dies (a checked operator[], or the allocator finding its heap
\* damaged).
FlatIterPastEnd ==
    /\ pc = "flat_loop"
    /\ idx < Len(ffi_toc_items)
    /\ StoresPastEnd(stacks, ffi_toc_items[idx + 1])
    /\ LET st == FlatStep([nodes |-> nodes, roots |-> roots, stacks |-> stacks],
                          ffi_toc_items[idx + 1])
       IN  /\ nodes' = st.nodes
           /\ roots' = st.roots
           /\ stacks' = st.stacks
    /\ idx' = idx + 1
    /\ pc' \in {"flat_loop", "crashed"}
    /\ UNCHANGED <<heading_markers, ffi_toc_items, orig>>
    /\ UNCHANGED findVars

FlatReturn ==
    /\ pc = "flat_loop"
    /\ idx = Len(ffi_toc_items)
    /\ pc' = "done"
    /\ UNCHANGED tocVars
    /\ UNCHANGED findVars

(***************************************************************************)
(* The two builders as functions of their whole input: the loop run to its *)
(* end (for populate_toc_items, the run in which no store past the end of  *)
(* depth_stacks stops the process).                                        *)
(***************************************************************************)
RECURSIVE HeadingsLoop(_, _, _)
HeadingsLoop(st, markers, i) ==
    IF i > Len(markers) THEN st
    ELSE HeadingsLoop(HeadingStep(st, markers[i]), markers, i + 1)

BuildTocFromHeadings(markers) ==
    IF markers = << >>
    THEN [nodes |-> << >>, roots |-> << >>]
    ELSE LET st == HeadingsLoop([nodes |-> << >>, roots |-> << >>,
                                 stacks |-> HeadingStacksInit], markers, 1)
         IN  [nodes |-> st.nodes, roots |-> st.roots]

RECURSIVE FlatLoop(_, _, _)
FlatLoop(st, items, i) ==
    IF i > Len(items) THEN st
    ELSE FlatLoop(FlatStep(st, items[i]), items, i + 1)

PopulateTocItems(items) ==
    IF items = << >>
    THEN [nodes |-> << >>, roots |-> << >>]
    ELSE LET st == FlatLoop([nodes |-> << >>, roots |-> << >>,
                             stacks |-> FlatStacksInit], items, 1)
         IN  [nodes |-> st.nodes, roots |-> st.roots]

(***************************************************************************)
(* The builders' inputs and specification.                                 *)
(***************************************************************************)
\* Levels and depths the events carry: below the range, the low end, values
\* that leave a level out, the high end, above the range.
HeadingLevels == {0, 1, 2, 3, MAX_HEADING_LEVELS, MAX_HEADING_LEVELS + 1}

FlatDepths == {0 - 1, 0, 1, 2, MAX_DEPTH, MAX_DEPTH + 1}

EventLabels == {[text |-> <<"a">>, ref |-> EmptyString],
                [text |-> <<"b">>, ref |-> <<"x">>]}

\* Events arrive in document order: the i-th event's position is i.
HeadingInput(k, lb, lv) ==
    [i \in 1..k |-> [text |-> lb[i].text, pos |-> i, level |-> lv[i]]]

FlatInput(k, lb, lv) ==
    [i \in 1..k |-> [name |-> lb[i].text, reference |-> lb[i].ref,
                     offset |-> i, depth |-> lv[i]]]

FindIdle ==
    /\ haystack = << >>
    /\ needle = << >>
    /\ start = 0
    /\ options = {}
    /\ pos = 0
    /\ cur = 0
    /\ last_match = wxNOT_FOUND
    /\ ret = wxNOT_FOUND

InitBuild ==
    /\ \E k \in 0..MaxEvents : \E lb \in [1..k -> EventLabels] :
          \/ /\ pc = "build_toc_from_headings"
             /\ \E lv \in [1..k -> HeadingLevels] :
                   heading_markers = HeadingInput(k, lb, lv)
             /\ ffi_toc_items = << >>
          \/ /\ pc = "populate_toc_items"
             /\ heading_markers = << >>
             /\ \E lv \in [1..k -> FlatDepths] :
                   ffi_toc_items = FlatInput(k, lb, lv)
    /\ idx = 0
    /\ nodes = << >>
    /\ roots = << >>
    /\ stacks = << >>
    /\ orig = [nodes |-> << >>, roots |-> << >>]
    /\ FindIdle

NextBuild ==
    \/ HeadingsEntry
    \/ HeadingsIter
    \/ HeadingsReturn
    \/ FlatEntry
    \/ FlatIter
    \/ FlatIterPastEnd
    \/ FlatReturn

SpecBuild == InitBuild /\ [][NextBuild]_vars

(***************************************************************************)
(* What the builders are to produce, stated on the input events alone.     *)
(***************************************************************************)
HeadingRun == heading_markers # << >>

EventLevel(j) == IF HeadingRun THEN heading_markers[j].level ELSE ffi_toc_items[j].depth

EventPosition(j) == IF HeadingRun THEN heading_markers[j].pos ELSE ffi_toc_items[j].offset

EventInRange(j) ==
    IF HeadingRun THEN EventLevel(j) \in 1..MAX_HEADING_LEVELS
    ELSE EventLevel(j) \in 0..MAX_DEPTH

\* The nearest in-range event before j whose level is strictly smaller; 0 if none.
NearestShallower(j) ==
    LET S == {k \in 1..(j - 1) : EventInRange(k) /\ EventLevel(k) < EventLevel(j)}
    IN  IF S = {} THEN 0 ELSE MaxOf(S)

\* The consumed in-range events that belong directly under event k (under the
\* forest for k = 0), in arrival order.
ExpectedUnder(k) ==
    SelectIdx({j \in 1..idx : EventInRange(j) /\ NearestShallower(j) = k}, idx)

\* The events (by position) a children vector holds, in its order.
EventsOf(list) == [i \in 1..Len(list) |-> nodes[list[i]].offset]

\* C1: in every state of either builder, each consumed in-range event has
\* exactly one node; the forest's roots are, in arrival order, the events with
\* no preceding in-range event of strictly smaller level/depth; and every
\* node's children are, in arrival order, the events whose nearest preceding
\* in-range event of strictly smaller level/depth is that node's event.
C1_NearestShallowerParent ==
    pc \in {"headings_loop", "flat_loop", "done", "crashed"} =>
        /\ Len(nodes) = Cardinality({j \in 1..idx : EventInRange(j)})
        /\ \A j \in 1..idx : EventInRange(j) =>
               \E n \in 1..Len(nodes) : nodes[n].offset = EventPosition(j)
        /\ EventsOf(roots) = ExpectedUnder(0)
        /\ \A n \in 1..Len(nodes) : EventsOf(nodes[n].children) = ExpectedUnder(nodes[n].offset)

\* A finished build in which an event skipped a level and was placed under an
\* event that is not the one just before it.
C1_Witness ==
    /\ pc = "done"
    /\ \E j \in 1..idx :
          /\ EventInRange(j)
          /\ NearestShallower(j) \notin {0, j - 1}
          /\ EventLevel(j) > EventLevel(NearestShallower(j)) + 1
          /\ \E n \in 1..Len(nodes) :
                /\ nodes[n].offset = NearestShallower(j)
                /\ Len(nodes[n].children) >= 2

\* The input with the out-of-range events removed.
InRangeLevel(e) == e.level \in 1..MAX_HEADING_LEVELS

InRangeDepth(e) == e.depth \in 0..MAX_DEPTH

\* C7: an out-of-range event is dropped without a trace, and the build always
\* completes: no build ends in a crash, and a finished build returns exactly
\* the forest that the input without its out-of-range events builds.
C7_OutOfRangeDropped ==
    /\ pc # "crashed"
    /\ pc = "done" =>
          [nodes |-> nodes, roots |-> roots] =
              IF HeadingRun
              THEN BuildTocFromHeadings(SelectSeq(heading_markers, InRangeLevel))
              ELSE PopulateTocItems(SelectSeq(ffi_toc_items, InRangeDepth))

\* C11: in populate_toc_items the pass over every accepted entry touches
\* depth_stacks only at indices inside the vector, the entry of depth
\* MAX_DEPTH included.
C11_IndicesInsideVector ==
    (/\ pc = "flat_loop"
     /\ idx < Len(ffi_toc_items)
     /\ FlatInRange(ffi_toc_items[idx + 1].depth))
        => \A i \in AccessedIndices(ffi_toc_items[idx + 1].depth) :
              InVector(stacks, i)

(***************************************************************************)
(* cleanup_toc.                                                            *)
(***************************************************************************)
ToLower(c) == IF c = "A" THEN "a" ELSE IF c = "B" THEN "b" ELSE c

\* wxString::Lower(): every character lowered, the length kept.
Lower(s) == [i \in 1..Len(s) |-> ToLower(s[i])]

\* wxString::CmpNoCase: 0 exactly when the strings are equal ignoring case.
CmpNoCase(s, t) == IF Lower(s) = Lower(t) THEN 0 ELSE 1

\* ShouldCollapse comparing the names exactly (Cmp in place of CmpNoCase).
ShouldCollapse_ExactName(ns, item) ==
    LET first_child == ns[item].children[1]
    IN  /\ ns[item].name = ns[first_child].name
        /\ (ns[item].ref = ns[first_child].ref \/ ns[item].ref = EmptyString)

\* item->name.CmpNoCase(first_child->name) == 0 &&
\*     (item->ref == first_child->ref || item->ref.IsEmpty())
ShouldCollapse(ns, item) ==
    LET first_child == ns[item].children[1]
    IN  /\ CmpNoCase(ns[item].name, ns[first_child].name) = 0
        /\ (ns[item].ref = ns[first_child].ref \/ ns[item].ref = EmptyString)

\* Promote without its condition: ref and offset are taken from the first
\* child at every collapse.
Promote_Always(ns, item) ==
    LET first_child == ns[item].children[1]
    IN  [ns EXCEPT ![item].ref = ns[first_child].ref,
                   ![item].offset = ns[first_child].offset]

\* if (item->ref.IsEmpty() && !first_child->ref.IsEmpty()) { ref, offset = first_child's }
Promote(ns, item) ==
    LET first_child == ns[item].children[1]
    IN  IF ns[item].ref = EmptyString /\ ns[first_child].ref # EmptyString
        THEN [ns EXCEPT ![item].ref = ns[first_child].ref,
                        ![item].offset = ns[first_child].offset]
        ELSE ns

\* Splice without the erase: the grandchildren go in front of the first child,
\* which stays in the list.
Splice_KeepFirst(ns, item) ==
    LET first_child == ns[item].children[1]
        grandchildren == ns[first_child].children
    IN  [ns EXCEPT ![item].children = grandchildren \o @,
                   ![first_child].children = << >>]

\* Splice inserting the grandchildren at end() instead of begin().
Splice_AtEnd(ns, item) ==
    LET first_child == ns[item].children[1]
        grandchildren == ns[first_child].children
    IN  [ns EXCEPT ![item].children = Tail(@) \o grandchildren,
                   ![first_child].children = << >>]

\* grandchildren = std::move(first_child->children); erase(begin());
\* insert(begin(), grandchildren...).  The erased item stays in the arena,
\* owned by nobody and with its children moved out.
Splice(ns, item) ==
    LET first_child == ns[item].children[1]
        grandchildren == ns[first_child].children
    IN  [ns EXCEPT ![item].children = grandchildren \o Tail(@),
                   ![first_child].children = << >>]

\* The body of the range-for up to the recursive call.
CollapseItem(ns, item) ==
    IF ns[item].children # << >> /\ ShouldCollapse(ns, item)
    THEN Splice(Promote(ns, item), item)
    ELSE ns

\* The vector a pointer designates.
ListAt(ns, rs, owner) == IF owner = 0 THEN rs ELSE ns[owner].children

\* cleanup_toc(items) from the i-th element of items on; items is the vector
\* owned by owner.  Each item is checked once, then its children are cleaned.
RECURSIVE CleanupFrom(_, _, _, _)
CleanupFrom(ns, rs, owner, i) ==
    LET items == ListAt(ns, rs, owner)
    IN  IF i > Len(items) THEN ns
        ELSE LET item == items[i]
                 checked == CollapseItem(ns, item)
                 below == CleanupFrom(checked, rs, item, 1)
             IN  CleanupFrom(below, rs, owner, i + 1)

CleanupToc(ns, rs) == CleanupFrom(ns, rs, 0, 1)

CleanupTocCall ==
    /\ pc \in {"cleanup_toc", "cleaned_once"}
    /\ nodes' = CleanupToc(nodes, roots)
    /\ pc' = IF pc = "cleanup_toc" THEN "cleaned_once" ELSE "cleaned_twice"
    /\ UNCHANGED <<heading_markers, ffi_toc_items, idx, roots, stacks, orig>>
    /\ UNCHANGED findVars

(***************************************************************************)
(* cleanup_toc's inputs: every forest of at most MaxNodes items, numbered  *)
(* in pre-order, with names and references from small sets; item k's       *)
(* offset is k.                                                            *)
(***************************************************************************)
NameChoices == {<<"a">>, <<"A">>, <<"b">>}

RefChoices == {EmptyString, <<"x">>}

\* Pre-order depth sequences: the first item is a root, each later one is at
\* most one level below the one before it.
ShapeChoices(k) ==
    {d \in [1..k -> 0..(MaxNodes - 1)] :
        \A i \in 1..k : IF i = 1 THEN d[i] = 0 ELSE d[i] <= d[i - 1] + 1}

ForestInput(k, nm, rf, d) ==
    PopulateTocItems([i \in 1..k |-> [name |-> nm[i], reference |-> rf[i],
                                      offset |-> i, depth |-> d[i]]])

InitCleanup ==
    /\ pc = "cleanup_toc"
    /\ \E k \in 0..MaxNodes :
          \E nm \in [1..k -> NameChoices], rf \in [1..k -> RefChoices],
             d \in ShapeChoices(k) :
              orig = ForestInput(k, nm, rf, d)
    /\ nodes = orig.nodes
    /\ roots = orig.roots
    /\ heading_markers = << >>
    /\ ffi_toc_items = << >>
    /\ idx = 0
    /\ stacks = << >>
    /\ FindIdle

NextCleanup == CleanupTocCall

SpecCleanup == InitCleanup /\ [][NextCleanup]_vars

(***************************************************************************)
(* Reading a forest.                                                       *)
(***************************************************************************)
\* The items a forest owns (an erased item is owned by nobody).
RECURSIVE OwnedBelow(_, _)
OwnedBelow(ns, list) ==
    IF list = << >> THEN {}
    ELSE {Head(list)} \cup OwnedBelow(ns, ns[Head(list)].children)
                      \cup OwnedBelow(ns, Tail(list))

\* The forest as a value: shape, names, references and offsets, no arena indices.
RECURSIVE TreeOf(_, _)
TreeOf(ns, n) ==
    [name |-> ns[n].name, ref |-> ns[n].ref, offset |-> ns[n].offset,
     children |-> [i \in 1..Len(ns[n].children) |-> TreeOf(ns, ns[n].children[i])]]

ForestOf(ns, rs) == [i \in 1..Len(rs) |-> TreeOf(ns, rs[i])]

\* The collapse predicate as the claims word it.
SameNameIgnoringCase(ns, m, n) == Lower(ns[m].name) = Lower(ns[n].name)

CollapsePredicate(ns, n) ==
    /\ Len(ns[n].children) >= 1
    /\ SameNameIgnoringCase(ns, n, ns[n].children[1])
    /\ (ns[n].ref = ns[ns[n].children[1]].ref \/ ns[n].ref = << >>)

\* Item n lost its first child to a collapse since the forest was handed in.
CollapsedInPass(n) ==
    /\ orig.nodes[n].children # << >>
    /\ orig.nodes[n].children[1] \notin OwnedBelow(nodes, roots)

\* The original statement of C5: after a pass no item of the forest satisfies
\* the collapse predicate against its current first child.
C5_NoCollapsibleLeft ==
    pc = "cleaned_once" =>
        \A n \in OwnedBelow(nodes, roots) : ~CollapsePredicate(nodes, n)

\* C5 (amended): after a pass, an item of the forest satisfies the collapse
\* predicate against its current first child only if, during the pass, that
\* item collapsed its former first child or its current first child collapsed
\* its own; every other item does not satisfy it.
C5_OnlyCollapsersCollapsible ==
    pc = "cleaned_once" =>
        \A n \in OwnedBelow(nodes, roots) :
            CollapsePredicate(nodes, n) =>
                \/ CollapsedInPass(n)
                \/ CollapsedInPass(nodes[n].children[1])

\* A pass that collapsed an item and left no item collapsible, next to an
\* untouched item whose first child has its name but another reference.
C5_Witness ==
    /\ pc = "cleaned_once"
    /\ \E n \in OwnedBelow(nodes, roots) : CollapsedInPass(n)
    /\ \A n \in OwnedBelow(nodes, roots) : ~CollapsePredicate(nodes, n)
    /\ \E n \in OwnedBelow(nodes, roots) :
          /\ ~CollapsedInPass(n)
          /\ nodes[n].children # << >>
          /\ SameNameIgnoringCase(nodes, n, nodes[n].children[1])

\* The items of a forest in pre-order.
RECURSIVE PreOrder(_, _)
PreOrder(ns, list) ==
    IF list = << >> THEN << >>
    ELSE <<Head(list)>> \o PreOrder(ns, ns[Head(list)].children)
                        \o PreOrder(ns, Tail(list))

Survives(n) == n \in OwnedBelow(nodes, roots)

\* C12: after a pass, an item that collapsed its first child has that child's
\* former children, in their order, followed by its own remaining former
\* children, in their order, and every other item has the children it had;
\* the only items gone are first children whose parent satisfied the collapse
\* predicate; the surviving items are in the pre-order they were in.
C12_SpliceKeepsOrder ==
    pc = "cleaned_once" =>
        /\ roots = orig.roots
        /\ \A n \in OwnedBelow(nodes, roots) :
              nodes[n].children =
                  IF CollapsedInPass(n)
                  THEN orig.nodes[orig.nodes[n].children[1]].children
                           \o Tail(orig.nodes[n].children)
                  ELSE orig.nodes[n].children
        /\ OwnedBelow(nodes, roots) \subseteq OwnedBelow(orig.nodes, orig.roots)
        /\ \A r \in OwnedBelow(orig.nodes, orig.roots) \ OwnedBelow(nodes, roots) :
              \E n \in OwnedBelow(nodes, roots) :
                  /\ orig.nodes[n].children # << >>
                  /\ orig.nodes[n].children[1] = r
                  /\ CollapsePredicate(orig.nodes, n)
        /\ PreOrder(nodes, roots) =
               SelectSeq(PreOrder(orig.nodes, orig.roots), Survives)

\* A pass in which an item collapsed a first child that had a child of its
\* own and a sibling after it.
C12_Witness ==
    /\ pc = "cleaned_once"
    /\ \E n \in OwnedBelow(nodes, roots) :
          /\ CollapsedInPass(n)
          /\ orig.nodes[orig.nodes[n].children[1]].children # << >>
          /\ Len(orig.nodes[n].children) >= 2
          /\ Len(nodes[n].children) >= 2

\* Item n collapsed its first child with an empty reference of its own and a
\* non-empty one on the child.
PromotedInPass(n) ==
    /\ CollapsedInPass(n)
    /\ orig.nodes[n].ref = << >>
    /\ orig.nodes[orig.nodes[n].children[1]].ref # << >>

\* C13: after a pass no item's name has changed; an item that collapsed its
\* first child while its own reference was empty and the child's was not has
\* the child's reference and offset; every other item has the reference and
\* offset it had.
C13_PromotionOnlyFromFirstChild ==
    pc = "cleaned_once" =>
        \A n \in OwnedBelow(nodes, roots) :
            LET from == IF PromotedInPass(n) THEN orig.nodes[n].children[1] ELSE n
            IN  /\ nodes[n].name = orig.nodes[n].name
                /\ nodes[n].ref = orig.nodes[from].ref
                /\ nodes[n].offset = orig.nodes[from].offset

\* A pass with a promotion that changed an offset and a collapse that promoted
\* nothing.
C13_Witness ==
    /\ pc = "cleaned_once"
    /\ \E n \in OwnedBelow(nodes, roots) :
          PromotedInPass(n) /\ nodes[n].offset # orig.nodes[n].offset
    /\ \E n \in OwnedBelow(nodes, roots) :
          CollapsedInPass(n) /\ ~PromotedInPass(n)

\* No item satisfies the collapse predicate against its first child while
\* that child satisfies it against its own first child.
NoPredicateChain(f) ==
    \A n \in OwnedBelow(f.nodes, f.roots) :
        ~(/\ CollapsePredicate(f.nodes, n)
          /\ CollapsePredicate(f.nodes, f.nodes[n].children[1]))

\* The item that heads n's children once n's first child is collapsed: that
\* child's first child, or n's second child when the first has none; 0 if none.
NextHead(ns, n) ==
    LET first == ns[n].children[1]
    IN  IF ns[first].children # << >> THEN ns[first].children[1]
        ELSE IF Len(ns[n].children) >= 2 THEN ns[n].children[2]
        ELSE 0

\* No item has the name of its first child and also of the item that would
\* head its children once that first child is collapsed.
NoNameChain(f) ==
    \A n \in OwnedBelow(f.nodes, f.roots) :
        (f.nodes[n].children # << >> /\ SameNameIgnoringCase(f.nodes, n, f.nodes[n].children[1]))
            => (NextHead(f.nodes, n) = 0 \/ ~SameNameIgnoringCase(f.nodes, n, NextHead(f.nodes, n)))

\* The original statement of C6: on a forest with no predicate chain a second
\* pass changes nothing.
C6_IdempotentWithoutPredicateChain ==
    (pc = "cleaned_twice" /\ NoPredicateChain(orig)) =>
        ForestOf(nodes, roots) = ForestOf(CleanupToc(orig.nodes, orig.roots), orig.roots)

\* C6 (amended): on a forest in which no item has the same name, ignoring
\* case, as both its first child and the item that heads its children once
\* that first child is collapsed, a second pass changes nothing.
C6_IdempotentWithoutNameChain ==
    (pc = "cleaned_twice" /\ NoNameChain(orig)) =>
        ForestOf(nodes, roots) = ForestOf(CleanupToc(orig.nodes, orig.roots), orig.roots)

\* Two passes over a forest with no name chain, the first of which collapsed
\* an item whose first child had children of its own.
C6_Witness ==
    /\ pc = "cleaned_twice"
    /\ NoNameChain(orig)
    /\ \E n \in OwnedBelow(nodes, roots) :
          /\ CollapsedInPass(n)
          /\ orig.nodes[orig.nodes[n].children[1]].children # << >>

(***************************************************************************)
(* find_text_literal.                                                      *)
(***************************************************************************)
has_option(opts, flag) == flag \in opts

\* wxIsalnum: letters and digits.
IsAlnum(c) ==
    c \in {"a", "A", "b", "B", "0", "1", "2", "3", "4", "5", "6", "7", "8", "9"}

\* a < b on size_t; each operand is the long of the same bit pattern.
UnsignedLess(a, b) == IF (a < 0) = (b < 0) THEN a < b ELSE b < 0

\* std::min<size_t>(a, b)
UnsignedMin(a, b) == IF UnsignedLess(b, a) THEN b ELSE a

\* str equals the characters of s at offsets p .. p + |str| - 1.
EqualAt(s, str, p) ==
    /\ p >= 0
    /\ p + Len(str) <= Len(s)
    /\ \A i \in 1..Len(str) : s[p + i] = str[i]

\* wxString::find(str, nStart) for a non-empty str: the first offset >= nStart.
RECURSIVE FindScan(_, _, _)
FindScan(s, str, p) ==
    IF p + Len(str) > Len(s) THEN npos
    ELSE IF EqualAt(s, str, p) THEN p
    ELSE FindScan(s, str, p + 1)

Find(s, str, nStart) ==
    IF UnsignedLess(Len(s), nStart) THEN npos ELSE FindScan(s, str, nStart)

\* wxString::rfind(str) for a non-empty str: the last offset at all.
RECURSIVE RFindScan(_, _, _)
RFindScan(s, str, p) ==
    IF p < 0 THEN npos
    ELSE IF EqualAt(s, str, p) THEN p
    ELSE RFindScan(s, str, p - 1)

RFind(s, str) == RFindScan(s, str, Len(s) - Len(str))

\* wxString::Left(nCount): the first nCount characters, all of them if fewer.
Left(s, nCount) ==
    IF UnsignedLess(Len(s), nCount) THEN s ELSE SubSeq(s, 1, nCount)

\* LiteralSearch with find in place of rfind on the prefix: the first
\* occurrence of the prefix instead of the last.
LiteralSearch_PrefixFind(search_haystack, search_needle, forward, from) ==
    IF forward THEN Find(search_haystack, search_needle, from)
    ELSE Find(Left(search_haystack, from), search_needle, 0)

\* forward ? search_haystack.find(search_needle, from)
\*         : search_haystack.Left(from).rfind(search_needle)
LiteralSearch(search_haystack, search_needle, forward, from) ==
    IF forward THEN Find(search_haystack, search_needle, from)
    ELSE RFind(Left(search_haystack, from), search_needle)

SearchHaystack == IF has_option(options, "match_case") THEN haystack ELSE Lower(haystack)

SearchNeedle == IF has_option(options, "match_case") THEN needle ELSE Lower(needle)

\* (pos == 0) || (wxIsalnum(haystack[pos - 1]) == 0)
WordStart(h, p) == p = 0 \/ ~IsAlnum(h[p])

\* (pos + needle.length() >= haystack.length()) || (wxIsalnum(haystack[pos + needle.length()]) == 0)
WordEnd(h, n, p) ==
    ~UnsignedLess(p + Len(n), Len(h)) \/ ~IsAlnum(h[p + Len(n) + 1])

\* StepPast skipping two positions forward.
StepPast_Two(forward, p) == IF forward THEN p + 2 ELSE p - 1

\* StepPast that does not move: the next search starts where the rejected
\* candidate was found.
StepPast_Stay(forward, p) == p

\* pos = forward ? pos + 1 : pos - 1 after a rejected candidate.
StepPast(forward, p) == IF forward THEN p + 1 ELSE p - 1

\* find_text without the empty-needle return.
FindText_NoEmptyReturn ==
    /\ pc = "find_text"
    /\ ret' = ret
    /\ pc' = IF has_option(options, "use_regex")
             THEN "find_text_regex" ELSE "find_text_literal"
    /\ UNCHANGED <<haystack, needle, start, options, pos, cur, last_match>>
    /\ UNCHANGED tocVars

\* find_text: the empty-needle return and the dispatch.
FindText ==
    /\ pc = "find_text"
    /\ IF needle = << >>
       THEN /\ ret' = wxNOT_FOUND
            /\ pc' = "done"
       ELSE /\ ret' = ret
            /\ pc' = IF has_option(options, "use_regex")
                     THEN "find_text_regex" ELSE "find_text_literal"
    /\ UNCHANGED <<haystack, needle, start, options, pos, cur, last_match>>
    /\ UNCHANGED tocVars

\* find_text_literal up to the loop: the search without match_whole_word
\* returns at once, the one with it enters the loop with pos = start.
FindTextLiteral ==
    /\ pc = "find_text_literal"
    /\ IF ~has_option(options, "match_whole_word")
       THEN /\ ret' = LiteralSearch(SearchHaystack, SearchNeedle,
                                    has_option(options, "forward"), start)
            /\ pc' = "done"
            /\ pos' = pos
       ELSE /\ pos' = start
            /\ pc' = "literal_loop"
            /\ ret' = ret
    /\ UNCHANGED <<haystack, needle, start, options, cur, last_match>>
    /\ UNCHANGED tocVars

\* One pass of while (true).
LiteralLoop ==
    /\ pc = "literal_loop"
    /\ LET forward == has_option(options, "forward")
           found == LiteralSearch(SearchHaystack, SearchNeedle, forward, pos)
           next == StepPast(forward, found)
       IN  IF found = wxNOT_FOUND
           THEN /\ pos' = found
                /\ ret' = wxNOT_FOUND
                /\ pc' = "done"
           ELSE IF WordStart(haystack, found) /\ WordEnd(haystack, needle, found)
           THEN /\ pos' = found
                /\ ret' = found
                /\ pc' = "done"
           ELSE IF \/ (forward /\ ~UnsignedLess(next, Len(haystack)))
                   \/ (~forward /\ next < 0)
           THEN /\ pos' = next
                /\ ret' = wxNOT_FOUND
                /\ pc' = "done"
           ELSE /\ pos' = next
                /\ ret' = ret
                /\ pc' = "literal_loop"
    /\ UNCHANGED <<haystack, needle, start, options, cur, last_match>>
    /\ UNCHANGED tocVars

(***************************************************************************)
(* find_text_regex.  std::regex over the patterns the model draws: plain   *)
(* characters, "\" followed by a character, and "(" (never closed, no      *)
(* pattern of the model holds a ")").                                      *)
(***************************************************************************)
\* wxString::ToStdString(): each character's bytes; every character the
\* model draws is ASCII, one byte of the same value.
BytesOf(c) == <<c>>

RECURSIVE ToStdString(_)
ToStdString(s) == IF s = << >> THEN << >> ELSE BytesOf(Head(s)) \o ToStdString(Tail(s))

\* if (match_whole_word) pattern = "\\b" + pattern + "\\b";
PatternOf(n, match_whole_word) ==
    IF match_whole_word
    THEN <<"\\", "b">> \o ToStdString(n) \o <<"\\", "b">>
    ELSE ToStdString(n)

Token(kind, c) == [kind |-> kind, c |-> c]

\* const std::regex rx(pattern, flags): the pattern's terms from its i-th
\* character on, or the regex_error the constructor throws (a "\" that ends
\* the pattern: error_escape; a "(" with no ")": error_paren).
RECURSIVE Compile(_, _)
Compile(pattern, i) ==
    IF i > Len(pattern) THEN [ok |-> TRUE, prog |-> << >>]
    ELSE IF pattern[i] = "\\"
    THEN IF i = Len(pattern) THEN [ok |-> FALSE, prog |-> << >>]
         ELSE LET rest == Compile(pattern, i + 2)
                  term == IF pattern[i + 1] = "b" THEN Token("word_boundary", "")
                          ELSE IF pattern[i + 1] = "B" THEN Token("not_word_boundary", "")
                          ELSE Token("char", pattern[i + 1])
              IN  [ok |-> rest.ok, prog |-> <<term>> \o rest.prog]
    ELSE IF pattern[i] = "("
    THEN [ok |-> FALSE, prog |-> << >>]
    ELSE LET rest == Compile(pattern, i + 1)
         IN  [ok |-> rest.ok, prog |-> <<Token("char", pattern[i])>> \o rest.prog]

\* [A-Za-z0-9_], the characters \b tells apart from the rest.
IsWordChar(c) == IsAlnum(c) \/ c = "_"

\* \b at offset p of a search over text[first, last): the character before
\* the searched range and the one after it are not looked at.
WordBoundary(text, first, last, p) ==
    LET left_is_word == p > first /\ IsWordChar(text[p])
        right_is_word == p < last /\ IsWordChar(text[p + 1])
    IN  left_is_word # right_is_word

\* Whether the terms from the k-th on match at offset p.
RECURSIVE MatchHere(_, _, _, _, _, _, _)
MatchHere(prog, k, text, first, last, p, icase) ==
    IF k > Len(prog) THEN TRUE
    ELSE IF prog[k].kind = "word_boundary"
    THEN WordBoundary(text, first, last, p) /\ MatchHere(prog, k + 1, text, first, last, p, icase)
    ELSE IF prog[k].kind = "not_word_boundary"
    THEN ~WordBoundary(text, first, last, p) /\ MatchHere(prog, k + 1, text, first, last, p, icase)
    ELSE /\ p < last
         /\ IF icase THEN ToLower(text[p + 1]) = ToLower(prog[k].c)
            ELSE text[p + 1] = prog[k].c
         /\ MatchHere(prog, k + 1, text, first, last, p + 1, icase)

\* std::regex_search(text + first, text + last, m, rx): the offset of m[0].first
\* from text, or wxNOT_FOUND when nothing matches.
RECURSIVE RegexSearchFrom(_, _, _, _, _, _)
RegexSearchFrom(prog, text, first, last, p, icase) ==
    IF p > last THEN wxNOT_FOUND
    ELSE IF MatchHere(prog, 1, text, first, last, p, icase) THEN p
    ELSE RegexSearchFrom(prog, text, first, last, p + 1, icase)

RegexSearch(prog, text, first, last, icase) ==
    RegexSearchFrom(prog, text, first, last, first, icase)

Rx == Compile(PatternOf(needle, has_option(options, "match_whole_word")), 1)

\* find_text_regex up to the backward loop: a pattern that does not compile
\* lands in catch (...); the forward search returns at once.
FindTextRegex ==
    /\ pc = "find_text_regex"
    /\ LET text == ToStdString(haystack)
           icase == ~has_option(options, "match_case")
       IN  IF ~Rx.ok
           THEN /\ ret' = wxNOT_FOUND
                /\ pc' = "done"
                /\ UNCHANGED <<cur, last_match>>
           ELSE IF has_option(options, "forward")
           THEN /\ ret' = RegexSearch(Rx.prog, text, UnsignedMin(start, Len(text)),
                                      Len(text), icase)
                /\ pc' = "done"
                /\ UNCHANGED <<cur, last_match>>
           ELSE /\ last_match' = wxNOT_FOUND
                /\ cur' = 0
                /\ pc' = "regex_backward"
                /\ ret' = ret
    /\ UNCHANGED <<haystack, needle, start, options, pos>>
    /\ UNCHANGED tocVars

\* One pass of while (cur <= base + end), or the return after it.
RegexBackwardLoop ==
    /\ pc = "regex_backward"
    /\ LET text == ToStdString(haystack)
           icase == ~has_option(options, "match_case")
           end == UnsignedMin(start, Len(text))
           found == RegexSearch(Rx.prog, text, cur, end, icase)
       IN  IF cur <= end /\ found # wxNOT_FOUND
           THEN /\ last_match' = found
                /\ cur' = found + 1
                /\ UNCHANGED <<pc, ret>>
           ELSE /\ ret' = last_match
                /\ pc' = "done"
                /\ UNCHANGED <<cur, last_match>>
    /\ UNCHANGED <<haystack, needle, start, options, pos>>
    /\ UNCHANGED tocVars

\* An exception out of the matcher or an allocation (std::regex_error,
\* std::bad_alloc) inside the try block: catch (...) returns wxNOT_FOUND.
RegexThrows ==
    /\ pc \in {"find_text_regex", "regex_backward"}
    /\ ret' = wxNOT_FOUND
    /\ pc' = "done"
    /\ UNCHANGED <<haystack, needle, start, options, pos, cur, last_match>>
    /\ UNCHANGED tocVars

(***************************************************************************)
(* find_text's inputs and specifications.                                  *)
(***************************************************************************)
\* A lower-case letter, its upper case, and a character that is no letter.
HaystackChars == {"b", "B", "-"}

\* For the regex search: the same plus the characters std::regex reads as
\* syntax.
TextChars == {"b", "-", "\\"}

PatternChars == {"b", "B", "-", "\\", "("}

OtherFlags == SUBSET {"forward", "match_case", "match_whole_word"}

TocIdle ==
    /\ heading_markers = << >>
    /\ ffi_toc_items = << >>
    /\ idx = 0
    /\ nodes = << >>
    /\ roots = << >>
    /\ stacks = << >>
    /\ orig = [nodes |-> << >>, roots |-> << >>]

InitLiteral ==
    /\ pc = "find_text"
    /\ \E k \in 0..MaxHaystack : haystack \in [1..k -> HaystackChars]
    /\ \E k \in 0..MaxNeedle : needle \in [1..k -> HaystackChars]
    /\ start \in (0 - 1)..(Len(haystack) + 1)
    /\ options \in OtherFlags
    /\ pos = 0
    /\ cur = 0
    /\ last_match = wxNOT_FOUND
    /\ ret = wxNOT_FOUND
    /\ TocIdle

InitRegex ==
    /\ pc = "find_text"
    /\ \E k \in 0..MaxText : haystack \in [1..k -> TextChars]
    /\ \E k \in 0..MaxPattern : needle \in [1..k -> PatternChars]
    /\ start \in (0 - 1)..(Len(haystack) + 1)
    /\ \E o \in OtherFlags : options = o \cup {"use_regex"}
    /\ pos = 0
    /\ cur = 0
    /\ last_match = wxNOT_FOUND
    /\ ret = wxNOT_FOUND
    /\ TocIdle

NextFind ==
    \/ FindText
    \/ FindTextLiteral
    \/ LiteralLoop
    \/ FindTextRegex
    \/ RegexBackwardLoop
    \/ RegexThrows

NextLiteral ==
    \/ FindText
    \/ FindTextLiteral
    \/ LiteralLoop

NextRegex ==
    \/ FindText
    \/ FindTextRegex
    \/ RegexBackwardLoop
    \/ RegexThrows

SpecLiteral == InitLiteral /\ [][NextLiteral]_vars

SpecRegex == InitRegex /\ [][NextRegex]_vars

InitFind == InitLiteral \/ InitRegex

SpecFind == InitFind /\ [][NextFind]_vars

\* The calls that reach the whole-word loop; the running call keeps running,
\* so every enabled step is eventually taken.
InitWholeWord == InitLiteral /\ has_option(options, "match_whole_word")

SpecWholeWord == InitWholeWord /\ [][NextLiteral]_vars /\ WF_vars(NextLiteral)

(***************************************************************************)
(* What the search is to return, stated on its arguments alone.            *)
(***************************************************************************)
\* The needle occurs at offset p under the selected case mode.
OccursAt(p) ==
    /\ p \in 0..(Len(haystack) - Len(needle))
    /\ \A i \in 1..Len(needle) :
          IF "match_case" \in options THEN haystack[p + i] = needle[i]
          ELSE ToLower(haystack[p + i]) = ToLower(needle[i])

\* The occurrence at p has no letter or digit right before or right after it.
WholeWordAt(p) ==
    /\ OccursAt(p)
    /\ (p > 0 => ~IsAlnum(haystack[p]))
    /\ (p + Len(needle) < Len(haystack) => ~IsAlnum(haystack[p + Len(needle) + 1]))

Offsets == 0..Len(haystack)

LeastOrNotFound(S) == IF S = {} THEN wxNOT_FOUND ELSE MinOf(S)

GreatestOrNotFound(S) == IF S = {} THEN wxNOT_FOUND ELSE MaxOf(S)

LiteralCall ==
    /\ "use_regex" \notin options
    /\ needle # << >>
    /\ start \in Offsets

\* C2: a finished backward whole-word literal search returns the greatest
\* whole-word occurrence that ends at or before start, or wxNOT_FOUND when
\* there is none.
C2_BackwardWholeWordRightmost ==
    (pc = "done" /\ LiteralCall /\ "match_whole_word" \in options /\ "forward" \notin options)
        => ret = GreatestOrNotFound({p \in Offsets : WholeWordAt(p) /\ p + Len(needle) <= start})

\* C3: a finished literal search without match_whole_word returns, forward,
\* the least occurrence at or after start and, backward, the greatest
\* occurrence that ends at or before start; wxNOT_FOUND exactly when there is
\* none.
C3_PlainLiteralSearch ==
    (pc = "done" /\ LiteralCall /\ "match_whole_word" \notin options)
        => ret = IF "forward" \in options
                 THEN LeastOrNotFound({p \in Offsets : OccursAt(p) /\ p >= start})
                 ELSE GreatestOrNotFound({p \in Offsets : OccursAt(p) /\ p + Len(needle) <= start})

\* A case-insensitive backward search that found an occurrence spelled in
\* another case than the needle and left a later occurrence, one that starts
\* before start and ends after it, aside.
C3_Witness ==
    /\ pc = "done"
    /\ LiteralCall
    /\ options = {}
    /\ ret >= 0
    /\ SubSeq(haystack, ret + 1, ret + Len(needle)) # needle
    /\ \E p \in Offsets : OccursAt(p) /\ p > ret /\ p < start

\* C4: a finished forward whole-word literal search returns the least
\* whole-word occurrence at or after start; wxNOT_FOUND exactly when there is
\* none.
C4_ForwardWholeWordLeftmost ==
    (pc = "done" /\ LiteralCall /\ "match_whole_word" \in options /\ "forward" \in options)
        => ret = LeastOrNotFound({p \in Offsets : WholeWordAt(p) /\ p >= start})

\* A forward whole-word search that returned an occurrence lying one position
\* after a rejected one.
C4_Witness ==
    /\ pc = "done"
    /\ LiteralCall
    /\ "match_whole_word" \in options
    /\ "forward" \in options
    /\ ret >= 1
    /\ ret - 1 >= start
    /\ OccursAt(ret - 1)
    /\ ~WholeWordAt(ret - 1)

\* C8: between two passes of the whole-word loop pos strictly increases in a
\* forward search and strictly decreases in a backward one (start inside the
\* haystack), and every call ends, with an offset inside the haystack or
\* wxNOT_FOUND.
C8_WholeWordLoopTerminates ==
    /\ [][(pc = "literal_loop" /\ pc' = "literal_loop" /\ start \in Offsets)
             => IF "forward" \in options THEN pos' > pos ELSE pos' < pos]_vars
    /\ <>(pc = "done" /\ (ret = wxNOT_FOUND \/ ret \in Offsets))

\* The loop about to start a pass after two rejected candidates.
C8_Witness ==
    /\ pc = "literal_loop"
    /\ start \in Offsets
    /\ \E p \in Offsets, q \in Offsets :
          /\ p # q
          /\ OccursAt(p) /\ ~WholeWordAt(p)
          /\ OccursAt(q) /\ ~WholeWordAt(q)
          /\ IF "forward" \in options
             THEN start <= p /\ p < q /\ q < pos
             ELSE pos < q /\ q < p /\ p + Len(needle) <= start

\* C9: with use_regex set, a needle that does not compile as a pattern makes
\* find_text return wxNOT_FOUND, whatever the other flags.
C9_BadPatternNotFound ==
    (/\ pc = "done"
     /\ "use_regex" \in options
     /\ needle # << >>
     /\ ~Compile(ToStdString(needle), 1).ok)
        => ret = wxNOT_FOUND

\* C10: a call with an empty needle goes from find_text straight to its
\* return, touching neither strategy's state, and returns wxNOT_FOUND.
C10_EmptyNeedleNotFound ==
    needle = << >> =>
        /\ pc \in {"find_text", "done"}
        /\ pc = "done" => ret = wxNOT_FOUND
        /\ pos = 0 /\ cur = 0 /\ last_match = wxNOT_FOUND

\* A finished call with an empty needle, a non-empty haystack, start inside
\* it and use_regex and match_whole_word set.
C10_Witness ==
    /\ pc = "done"
    /\ needle = << >>
    /\ haystack # << >>
    /\ start \in 1..Len(haystack)
    /\ {"use_regex", "match_whole_word"} \subseteq options

\* The offsets before start at which the compiled pattern matches when the
\* window [0, start) is searched as a whole.
WindowMatches ==
    LET text == ToStdString(haystack)
    IN  {p \in 0..(start - 1) :
            MatchHere(Rx.prog, 1, text, 0, start, p, ~has_option(options, "match_case"))}

\* The backward loop is about to leave: its condition fails or its search does.
BackwardLoopLeaves ==
    LET text == ToStdString(haystack)
        end == UnsignedMin(start, Len(text))
    IN  ~(/\ cur <= end
          /\ RegexSearch(Rx.prog, text, cur, end,
                         ~has_option(options, "match_case")) # wxNOT_FOUND)

\* C14: a backward regex search with 0 <= start <= length leaves its loop
\* with the start offset of the rightmost match beginning strictly before
\* start, or with wxNOT_FOUND when the window [0, start) holds no match.
C14_BackwardRegexRightmost ==
    (/\ pc = "regex_backward"
     /\ start \in Offsets
     /\ Rx.ok
     /\ BackwardLoopLeaves)
        => last_match = GreatestOrNotFound(WindowMatches)

\* C15: a regex search with match_whole_word set, for a needle of letters and
\* digits and 0 <= start <= length, returns only offsets at which the match
\* has no alphanumeric character right before it and none right after it in
\* the haystack.
C15_RegexWholeWordAgainstHaystack ==
    (/\ pc = "done"
     /\ {"use_regex", "match_whole_word"} \subseteq options
     /\ needle # << >>
     /\ \A i \in 1..Len(needle) : IsAlnum(needle[i])
     /\ start \in Offsets
     /\ ret # wxNOT_FOUND)
        => /\ ret = 0 \/ ~IsAlnum(haystack[ret])
           /\ \/ ret + Len(needle) >= Len(haystack)
              \/ ~IsAlnum(haystack[ret + Len(needle) + 1])

====
